---- MODULE Spec2Model ----
(***************************************************************************)
(* Model of the youtube-map-parser utilities:                              *)
(*   update_y_map_json.py  - snapshot updater (Spec)                       *)
(*   filter_channels.py    - rich filter      (SpecFilter)                 *)
(*   export_to_csv.py      - exporter         (SpecExport)                 *)
(* Python values are tagged tuples: <<"None">>, <<"missing">> (key absent  *)
(* from a dict), <<"int", n>>, <<"float", n>>, <<"str", s>>, <<"list", l>>.*)
(* Strings are sequences of one-character strings so that strip(), lower() *)
(* split() and substring search are computed, not assumed.                 *)
(***************************************************************************)
EXTENDS Integers, Sequences, FiniteSets, TLC

VARIABLES
    \* ---- updater: the world
    fs_local,      \* content of LOCAL_PATH, or NoFile
    backups,       \* timestamp -> content of LOCAL_PATH.bak_<timestamp>, or NoFile
    clock,         \* datetime.now() truncated to the second
    remote,        \* bytes the remote endpoint currently serves
    \* ---- updater: one run of main()
    upc,           \* position of main()
    local_bytes, old_hash, new_bytes, new_hash, backup_path,
    uexit,         \* process exit status of the last finished run
    runs,          \* number of runs started
    \* ---- updater: history of the current run / of all runs
    fetch,         \* outcome of the HTTP fetch of the current run
    start_local,   \* fs_local when the current run started
    start_backups, \* backups when the current run started
    lwrites,       \* write_bytes calls on LOCAL_PATH made by the current run
    bwrites,       \* write_bytes calls on a backup path made by the current run
    replaced,      \* contents of snapshots that some run has overwritten
    \* ---- rich filter: the world
    fin,           \* the file at --json-path: absent, not JSON, or a JSON value
    fargs,         \* the parsed command line
    csv_file,      \* rows of the file at --output-csv, or NoFile
    stdout,        \* lines printed so far
    \* ---- rich filter: one run of main()
    fpc,           \* position of main()
    data, filtered, total_before_limit,
    fexit,         \* process exit status
    all_filtered,  \* history: what filter_channels returned, before the limit
    \* ---- exporter
    ein,           \* the records of y_map_channels.json
    epc,           \* position of main()
    channels_all,  \* rows of channels_all.csv, or NoFile
    eout           \* lines printed so far

uVars == <<fs_local, backups, clock, remote, upc, local_bytes, old_hash,
           new_bytes, new_hash, backup_path, uexit, runs, fetch,
           start_local, start_backups, lwrites, bwrites, replaced>>

fVars == <<fin, fargs, csv_file, stdout, fpc, data, filtered,
           total_before_limit, fexit, all_filtered>>

eVars == <<ein, epc, channels_all, eout>>

vars == <<uVars, fVars, eVars>>

-----------------------------------------------------------------------------
(* Bounds *)
MaxContent == 3   \* distinct byte strings the endpoint may serve
MaxClock   == 2   \* clock seconds 0..MaxClock
MaxRuns    == 3   \* updater runs
MaxRecords == 4   \* records in a dataset whose order matters

None    == <<"None">>
NoFile  == <<"absent">>
Bytes(c) == <<"bytes", c>>
Csv(rows) == <<"csv", rows>>        \* a CSV file: its rows after the header
Contents   == {Bytes(c) : c \in 1..MaxContent}
Timestamps == 0..MaxClock

-----------------------------------------------------------------------------
(* update_y_map_json.py *)

\* hashlib.sha256(content).hexdigest(): collision-free on the modelled contents
calculate_sha256(content) == <<"sha256", content[2]>>

\* backup_path = path.with_name(f"{path.name}.bak_{timestamp}"): the name is a
\* function of the clock second alone
BackupName(now) == now

create_backup_skip(bk, now, content) == bk
\* backup_path.write_bytes(content): creates or truncates the file of that name
create_backup(bk, now, content) == [bk EXCEPT ![BackupName(now)] = content]

\* response.raise_for_status(): raises unless the status is a success
raise_for_status_never(resp) == FALSE
raise_for_status(resp) == ~resp.ok

\* old_hash == new_hash  (line 36)
NoChange_never(oh, nh) == FALSE
NoChange(oh, nh) == oh = nh

\* what requests.get may return: a success carrying the served bytes, or a
\* non-success status carrying some error body
Responses == {[ok |-> TRUE, content |-> remote]}
             \cup {[ok |-> FALSE, content |-> c] : c \in Contents}

UInit ==
    /\ fs_local \in {NoFile} \cup Contents
    /\ backups = [t \in Timestamps |-> NoFile]
    /\ clock = 0
    /\ remote \in Contents
    /\ upc = "idle"
    /\ local_bytes = None /\ old_hash = None
    /\ new_bytes = None /\ new_hash = None /\ backup_path = None
    /\ uexit = None
    /\ runs = 0
    /\ fetch = "none"
    /\ start_local = fs_local
    /\ start_backups = backups
    /\ lwrites = 0 /\ bwrites = 0
    /\ replaced = {}

\* the endpoint's content changes (external)
UpstreamChange ==
    /\ \E c \in Contents \ {remote} : remote' = c
    /\ UNCHANGED <<fs_local, backups, clock, upc, local_bytes, old_hash,
                   new_bytes, new_hash, backup_path, uexit, runs, fetch,
                   start_local, start_backups, lwrites, bwrites, replaced>>
    /\ UNCHANGED <<fVars, eVars>>

\* a clock second passes (external)
Tick ==
    /\ clock < MaxClock
    /\ clock' = clock + 1
    /\ UNCHANGED <<fs_local, backups, remote, upc, local_bytes, old_hash,
                   new_bytes, new_hash, backup_path, uexit, runs, fetch,
                   start_local, start_backups, lwrites, bwrites, replaced>>
    /\ UNCHANGED <<fVars, eVars>>

\* main(), lines 23-25
StartRun ==
    /\ upc = "idle"
    /\ runs < MaxRuns
    /\ runs' = runs + 1
    /\ upc' = "read"
    /\ local_bytes' = None /\ old_hash' = None
    /\ new_bytes' = None /\ new_hash' = None /\ backup_path' = None
    /\ uexit' = None
    /\ fetch' = "none"
    /\ start_local' = fs_local
    /\ start_backups' = backups
    /\ lwrites' = 0 /\ bwrites' = 0
    /\ UNCHANGED <<fs_local, backups, clock, remote, replaced>>
    /\ UNCHANGED <<fVars, eVars>>

\* main(), lines 27-29
ReadLocal ==
    /\ upc = "read"
    /\ IF fs_local # NoFile
         THEN /\ local_bytes' = fs_local
              /\ old_hash' = calculate_sha256(fs_local)
         ELSE UNCHANGED <<local_bytes, old_hash>>
    /\ upc' = "fetch"
    /\ UNCHANGED <<fs_local, backups, clock, remote, new_bytes, new_hash,
                   backup_path, uexit, runs, fetch, start_local,
                   start_backups, lwrites, bwrites, replaced>>
    /\ UNCHANGED <<fVars, eVars>>

\* main(), line 31 raising (connection error, timeout): the exception leaves
\* main() and SystemExit reports it
FetchNetworkError ==
    /\ upc = "fetch"
    /\ upc' = "aborted"
    /\ fetch' = "neterr"
    /\ uexit' = <<"int", 1>>
    /\ UNCHANGED <<fs_local, backups, clock, remote, local_bytes, old_hash,
                   new_bytes, new_hash, backup_path, runs, start_local,
                   start_backups, lwrites, bwrites, replaced>>
    /\ UNCHANGED <<fVars, eVars>>

\* main(), lines 31-34 with a response
FetchResponse ==
    /\ upc = "fetch"
    /\ \E resp \in Responses :
         /\ fetch' = IF resp.ok THEN "ok" ELSE "httperr"
         /\ IF raise_for_status(resp)
              THEN /\ upc' = "aborted"
                   /\ uexit' = <<"int", 1>>
                   /\ UNCHANGED <<new_bytes, new_hash>>
              ELSE /\ new_bytes' = resp.content
                   /\ new_hash' = calculate_sha256(resp.content)
                   /\ upc' = "compare"
                   /\ UNCHANGED uexit
    /\ UNCHANGED <<fs_local, backups, clock, remote, local_bytes, old_hash,
                   backup_path, runs, start_local, start_backups, lwrites,
                   bwrites, replaced>>
    /\ UNCHANGED <<fVars, eVars>>

\* main(), lines 36-38
Compare ==
    /\ upc = "compare"
    /\ IF NoChange(old_hash, new_hash)
         THEN upc' = "done" /\ uexit' = <<"int", 0>>
         ELSE upc' = "backup" /\ UNCHANGED uexit
    /\ UNCHANGED <<fs_local, backups, clock, remote, local_bytes, old_hash,
                   new_bytes, new_hash, backup_path, runs, fetch,
                   start_local, start_backups, lwrites, bwrites, replaced>>
    /\ UNCHANGED <<fVars, eVars>>

\* main(), lines 40-42
Backup ==
    /\ upc = "backup"
    /\ IF local_bytes # None
         THEN /\ backups' = create_backup(backups, clock, local_bytes)
              /\ backup_path' = <<"path", BackupName(clock)>>
              /\ bwrites' = bwrites + 1
         ELSE UNCHANGED <<backups, backup_path, bwrites>>
    /\ upc' = "write"
    /\ UNCHANGED <<fs_local, clock, remote, local_bytes, old_hash, new_bytes,
                   new_hash, uexit, runs, fetch, start_local, start_backups,
                   lwrites, replaced>>
    /\ UNCHANGED <<fVars, eVars>>

\* main(), lines 44-53
WriteLocal ==
    /\ upc = "write"
    /\ fs_local' = new_bytes
    /\ lwrites' = lwrites + 1
    /\ replaced' = IF fs_local # NoFile THEN replaced \cup {fs_local} ELSE replaced
    /\ upc' = "done"
    /\ uexit' = <<"int", 0>>
    /\ UNCHANGED <<backups, clock, remote, local_bytes, old_hash, new_bytes,
                   new_hash, backup_path, runs, fetch, start_local,
                   start_backups, bwrites>>
    /\ UNCHANGED <<fVars, eVars>>

\* the process has exited; the next invocation may start
Exit ==
    /\ upc \in {"done", "aborted"}
    /\ upc' = "idle"
    /\ UNCHANGED <<fs_local, backups, clock, remote, local_bytes, old_hash,
                   new_bytes, new_hash, backup_path, uexit, runs, fetch,
                   start_local, start_backups, lwrites, bwrites, replaced>>
    /\ UNCHANGED <<fVars, eVars>>

UNext ==
    \/ UpstreamChange
    \/ Tick
    \/ StartRun
    \/ ReadLocal
    \/ FetchNetworkError
    \/ FetchResponse
    \/ Compare
    \/ Backup
    \/ WriteLocal
    \/ Exit


-----------------------------------------------------------------------------
(* Python values and the str methods the scripts use *)

Missing == <<"missing">>                 \* key absent from a dict
PyInt(n)  == <<"int", n>>
PyStr(s)  == <<"str", s>>
PyFloat(n) == <<"float", n>>               \* the float n.0
PyList(l) == <<"list", l>>
PyDict(d) == <<"dict", d>>

\* dict.get(key): None when the key is absent
Get(v) == IF v = Missing THEN None ELSE v
\* dict.get(key, default)
GetD(v, default) == IF v = Missing THEN default ELSE v

\* str.lower() on the modelled alphabet
lowerChar(c) ==
    CASE c = "A" -> "a" [] c = "B" -> "b" [] c = "C" -> "c"
      [] c = "H" -> "h" [] c = "O" -> "o" [] c = "X" -> "x"
      [] OTHER -> c
lower(s) == [i \in 1..Len(s) |-> lowerChar(s[i])]

isspace(c) == c = " "
RECURSIVE lstrip(_)
lstrip(s) == IF s # <<>> /\ isspace(Head(s)) THEN lstrip(Tail(s)) ELSE s
RECURSIVE rstrip(_)
rstrip(s) ==
    IF s # <<>> /\ isspace(s[Len(s)]) THEN rstrip(SubSeq(s, 1, Len(s) - 1)) ELSE s
\* str.strip()
strip(s) == rstrip(lstrip(s))

\* str.split(sep) for a one-character sep: "".split(",") is [""]
RECURSIVE split(_, _)
split(s, sep) ==
    IF \E i \in 1..Len(s) : s[i] = sep
      THEN LET i == CHOOSE j \in 1..Len(s) :
                        s[j] = sep /\ \A k \in 1..(j - 1) : s[k] # sep
           IN  <<SubSeq(s, 1, i - 1)>> \o split(SubSeq(s, i + 1, Len(s)), sep)
      ELSE <<s>>

\* sub in s
contains(sub, s) ==
    \E i \in 0..(Len(s) - Len(sub)) : SubSeq(s, i + 1, i + Len(sub)) = sub

DigitChars == <<"0", "1", "2", "3", "4", "5", "6", "7", "8", "9">>
IsDigit(c) == \E d \in 1..Len(DigitChars) : DigitChars[d] = c
DigitVal(c) == (CHOOSE d \in 1..Len(DigitChars) : DigitChars[d] = c) - 1

RECURSIVE StrOfNat(_)
StrOfNat(n) ==
    IF n < Len(DigitChars) THEN <<DigitChars[n + 1]>>
    ELSE StrOfNat(n \div Len(DigitChars)) \o <<DigitChars[(n % Len(DigitChars)) + 1]>>

RECURSIVE join(_, _)
\* sep.join(parts)
join(sep, parts) ==
    IF parts = <<>> THEN <<>>
    ELSE IF Len(parts) = 1 THEN parts[1]
    ELSE parts[1] \o sep \o join(sep, Tail(parts))

RECURSIVE str(_)
\* str(value)
str(v) ==
    CASE v[1] = "str"   -> v[2]
      [] v[1] = "int"   -> IF v[2] < 0 THEN <<"-">> \o StrOfNat(-v[2]) ELSE StrOfNat(v[2])
      [] v[1] = "float" -> (IF v[2] < 0 THEN <<"-">> \o StrOfNat(-v[2]) ELSE StrOfNat(v[2]))
                           \o <<".", "0">>
      [] v[1] = "None"  -> <<"N", "o", "n", "e">>
      [] v[1] = "list"  ->
           <<"[">> \o join(<<",", " ">>,
                           [i \in 1..Len(v[2]) |->
                              IF v[2][i][1] = "str"
                                THEN <<"'">> \o v[2][i][2] \o <<"'">>
                                ELSE str(v[2][i])])
           \o <<"]">>

RECURSIVE NatOfDigits(_)
NatOfDigits(s) ==
    IF s = <<>> THEN 0
    ELSE NatOfDigits(SubSeq(s, 1, Len(s) - 1)) * Len(DigitChars) + DigitVal(s[Len(s)])

\* int(text): surrounding whitespace, an optional sign, then decimal digits;
\* anything else raises ValueError (ok = FALSE)
IntOfStr(text) ==
    LET t == strip(text)
        signed == t # <<>> /\ Head(t) \in {"+", "-"}
        digits == IF signed THEN Tail(t) ELSE t
    IN  IF digits # <<>> /\ \A i \in 1..Len(digits) : IsDigit(digits[i])
          THEN [ok |-> TRUE,
                n  |-> IF signed /\ Head(t) = "-"
                         THEN -NatOfDigits(digits) ELSE NatOfDigits(digits)]
          ELSE [ok |-> FALSE, n |-> 0]

-----------------------------------------------------------------------------
(* filter_channels.py *)

\* split_arg_values(raw)
split_arg_values(raw) ==
    IF raw = None THEN None
    ELSE LET items  == split(raw[2], ",")
             kept   == SelectSeq(items, LAMBDA it : strip(it) # <<>>)
             values == [i \in 1..Len(kept) |-> lower(strip(kept[i]))]
         IN  IF values = <<>> THEN None ELSE PyList(values)

normalize_text_nostrip(value) == IF value = None THEN None ELSE PyStr(lower(value[2]))
\* normalize_text(value)
normalize_text(value) ==
    IF value = None THEN None ELSE PyStr(lower(strip(value[2])))

parse_int_abs(value) ==
    IF value = None THEN 0
    ELSE IF value[1] = "int" THEN (IF value[2] < 0 THEN -value[2] ELSE value[2])
    ELSE LET r == IntOfStr(strip(str(value)))
         IN  IF r.ok THEN (IF r.n < 0 THEN -r.n ELSE r.n) ELSE 0
\* parse_int(value)
parse_int(value) ==
    IF value = None THEN 0
    ELSE IF value[1] = "int" THEN value[2]
    ELSE LET r == IntOfStr(strip(str(value)))
         IN  IF r.ok THEN r.n ELSE 0

\* category_matches(channel_categories, patterns)
category_matches(channel_categories, patterns) ==
    \E i \in 1..Len(channel_categories) :
        \E j \in 1..Len(patterns) :
            contains(patterns[j], lower(str(channel_categories[i])))

\* keyword_matches(titles, keyword)
keyword_matches(titles, keyword) ==
    \E i \in 1..Len(titles) : contains(lower(keyword), lower(str(titles[i])))

\* the value of x or []
OrEmpty(v) == IF v = None \/ v = PyList(<<>>) THEN <<>> ELSE v[2]

\* item.get("statistic", {}).get("subscribersCount")
SubscribersOf(item) ==
    IF item.statistic = Missing THEN None ELSE Get(item.statistic[2].subscribersCount)

\* args.keyword.lower() if args.keyword else None  (line 128)
KeywordOf(args) ==
    IF args.keyword = None \/ args.keyword = PyStr(<<>>) THEN None
    ELSE PyStr(lower(args.keyword[2]))

\* the loop body of filter_channels, lines 132-155: TRUE iff no continue is taken
Keep(item, args) ==
    LET clusters == split_arg_values(args.cluster)
        inferred_clusters == split_arg_values(args.inferred_cluster)
        categories == split_arg_values(args.category)
        keyword == KeywordOf(args)
        subscribers == parse_int(SubscribersOf(item))
        cluster_name == normalize_text(Get(item.clusterName))
        inferred_cluster_name == normalize_text(Get(item.inferredClusterName))
        In(name, l) == \E i \in 1..Len(l[2]) : l[2][i] = name[2]
    IN  /\ ~(clusters # None /\ (cluster_name = None \/ ~In(cluster_name, clusters)))
        /\ ~(inferred_clusters # None
               /\ (inferred_cluster_name = None
                     \/ ~In(inferred_cluster_name, inferred_clusters)))
        /\ ~(subscribers < args.min_subscribers)
        /\ ~(args.max_subscribers # None /\ subscribers > args.max_subscribers[2])
        /\ (categories # None =>
              category_matches(OrEmpty(Get(item.definedCategories)), categories[2]))
        /\ (keyword # None =>
              keyword_matches(OrEmpty(Get(item.lastVideoTitles)), keyword[2]))

\* lines 157-160: a copy whose statistic.subscribersCount is the parsed integer
Copy(item) ==
    LET stat == IF item.statistic = Missing THEN [subscribersCount |-> Missing]
                ELSE item.statistic[2]
    IN  [item EXCEPT !.statistic =
            PyDict([stat EXCEPT !.subscribersCount = PyInt(parse_int(SubscribersOf(item)))])]

\* x.get("statistic", {}).get("subscribersCount", 0)  (the sort key, line 163)
SortKey(x) ==
    IF x.statistic = Missing THEN 0
    ELSE GetD(x.statistic[2].subscribersCount, PyInt(0))[2]

RECURSIVE InsertDesc_unstable(_, _)
InsertDesc_unstable(sorted, x) ==
    IF sorted = <<>> THEN <<x>>
    ELSE IF SortKey(Head(sorted)) > SortKey(x)
           THEN <<Head(sorted)>> \o InsertDesc_unstable(Tail(sorted), x)
           ELSE <<x>> \o sorted
RECURSIVE InsertDesc(_, _)
\* x goes after every element whose key is >= its own
InsertDesc(sorted, x) ==
    IF sorted = <<>> THEN <<x>>
    ELSE IF SortKey(Head(sorted)) >= SortKey(x)
           THEN <<Head(sorted)>> \o InsertDesc(Tail(sorted), x)
           ELSE <<x>> \o sorted

RECURSIVE SortDesc(_)
\* list.sort(key=..., reverse=True): stable, descending
SortDesc(l) ==
    IF l = <<>> THEN <<>>
    ELSE InsertDesc(SortDesc(SubSeq(l, 1, Len(l) - 1)), l[Len(l)])

\* filter_channels(data, args)
filter_channels(channels, args) ==
    LET kept == SelectSeq(channels, LAMBDA item : Keep(item, args))
    IN  SortDesc([i \in 1..Len(kept) |-> Copy(kept[i])])

Truncate_offbyone(channels, limit) ==
    IF limit > 0
      THEN SubSeq(channels, 1,
                  IF limit + 1 < Len(channels) THEN limit + 1 ELSE Len(channels))
      ELSE channels
\* lines 233-235: filtered[:limit] when limit > 0
Truncate(channels, limit) ==
    IF limit > 0
      THEN SubSeq(channels, 1, IF limit < Len(channels) THEN limit ELSE Len(channels))
      ELSE channels

\* print_results(channels, total_before_limit): the lines printed
print_results(channels, total) ==
    [i \in 1..Len(channels) |->
        <<"row", GetD(channels[i].channelName, PyStr(<<>>)),
          SortKey(channels[i]), GetD(channels[i].clusterName, PyStr(<<>>))>>]
    \o <<<<"found", total>>>>
    \o (IF total # Len(channels)
          THEN <<<<"shown", Len(channels)>>>> ELSE <<>>)

\* save_to_csv(channels, output_path): the rows written after the header
save_to_csv(channels) ==
    [i \in 1..Len(channels) |->
        [channelName |-> GetD(channels[i].channelName, PyStr(<<>>)),
         subscribersCount |->
             IF channels[i].statistic = Missing THEN PyStr(<<>>)
             ELSE GetD(channels[i].statistic[2].subscribersCount, PyStr(<<>>)),
         clusterName |-> GetD(channels[i].clusterName, PyStr(<<>>)),
         inferredClusterName |-> GetD(channels[i].inferredClusterName, PyStr(<<>>)),
         definedCategories |->
             PyStr(join(<<";", " ">>,
                      LET dc == OrEmpty(Get(channels[i].definedCategories))
                      IN  [j \in 1..Len(dc) |-> str(dc[j])]))]]

\* argparse defaults (parse_args)
DefaultMinSubscribers == 0
DefaultLimit == 50
DefaultArgs ==
    [cluster |-> None, inferred_cluster |-> None,
     min_subscribers |-> DefaultMinSubscribers, max_subscribers |-> None,
     category |-> None, keyword |-> None,
     limit |-> DefaultLimit, output_csv |-> None]

Channel(name, subs, cluster, inferred, cats, titles) ==
    [channelName |-> name, statistic |-> subs, clusterName |-> cluster,
     inferredClusterName |-> inferred, definedCategories |-> cats,
     lastVideoTitles |-> titles]

\* load_channels(path) called from main(): the data, or the exception raised
load_channels_lenient(file) ==
    IF file[1] = "nofile" THEN <<"FileNotFoundError">>
    ELSE IF file[1] = "notjson" THEN <<"ValueError", "decode">>
    ELSE IF file[2][1] # "list" THEN <<"ok", <<>>>>
    ELSE <<"ok", file[2][2]>>
load_channels(file) ==
    IF file[1] = "nofile" THEN <<"FileNotFoundError">>
    ELSE IF file[1] = "notjson" THEN <<"ValueError", "decode">>
    ELSE IF file[2][1] # "list" THEN <<"ValueError", "notlist">>
    ELSE <<"ok", file[2][2]>>

\* main(), lines 218-228
Load ==
    /\ fpc = "start"
    /\ LET r == load_channels(fin)
       IN  IF r[1] = "ok"
             THEN /\ data' = r[2]
                  /\ fpc' = "filter"
                  /\ UNCHANGED <<stdout, fexit>>
             ELSE /\ stdout' = stdout \o <<<<"error", r[1]>>>>
                  /\ fexit' = PyInt(1)
                  /\ fpc' = "exit"
                  /\ UNCHANGED data
    /\ UNCHANGED <<fin, fargs, csv_file, filtered, total_before_limit, all_filtered>>
    /\ UNCHANGED <<uVars, eVars>>

\* main(), lines 230-231
Filter ==
    /\ fpc = "filter"
    /\ filtered' = filter_channels(data, fargs)
    /\ all_filtered' = filtered'
    /\ total_before_limit' = Len(filtered')
    /\ fpc' = "limit"
    /\ UNCHANGED <<fin, fargs, csv_file, stdout, data, fexit>>
    /\ UNCHANGED <<uVars, eVars>>

\* main(), lines 233-237
LimitAndPrint ==
    /\ fpc = "limit"
    /\ filtered' = Truncate(filtered, fargs.limit)
    /\ stdout' = stdout \o print_results(filtered', total_before_limit)
    /\ fpc' = "csv"
    /\ UNCHANGED <<fin, fargs, csv_file, data, total_before_limit, fexit, all_filtered>>
    /\ UNCHANGED <<uVars, eVars>>

\* main(), lines 239-242
SaveAndReturn ==
    /\ fpc = "csv"
    /\ IF fargs.output_csv # None /\ fargs.output_csv # PyStr(<<>>)
         THEN /\ csv_file' = Csv(save_to_csv(filtered))
              /\ stdout' = stdout \o <<<<"saved">>>>
         ELSE UNCHANGED <<csv_file, stdout>>
    /\ fexit' = PyInt(0)
    /\ fpc' = "exit"
    /\ UNCHANGED <<fin, fargs, data, filtered, total_before_limit, all_filtered>>
    /\ UNCHANGED <<uVars, eVars>>

FNext ==
    \/ Load
    \/ Filter
    \/ LimitAndPrint
    \/ SaveAndReturn

(* Inputs of the rich filter *)
SeqsUpTo(S, n) == UNION {[1..k -> S] : k \in 0..n}
OutPath == PyStr(<<"o">>)

\* one record, every field and every predicate varied
PredChannels ==
    {Channel(PyStr(<<"n">>), subs, cluster, inferred, cats, titles) :
        subs \in {Missing, PyDict([subscribersCount |-> PyInt(5)]),
                  PyDict([subscribersCount |-> PyStr(<<"7">>)])},
        cluster \in {Missing, PyStr(<<"a">>), PyStr(<<"B", " ">>), PyStr(<<"c">>)},
        inferred \in {Missing, PyStr(<<"B">>)},
        cats \in {Missing, PyList(<<PyStr(<<"x">>), PyStr(<<"H", " ", "C", "o">>)>>),
                  PyList(<<PyStr(<<"x">>)>>)},
        titles \in {Missing, PyList(<<PyStr(<<"a", "X">>)>>)}}
PredArgs ==
    {[DefaultArgs EXCEPT !.cluster = c, !.inferred_cluster = ic,
                         !.min_subscribers = mn, !.max_subscribers = mx,
                         !.category = cat, !.keyword = kw] :
        c \in {None, PyStr(<<"A", ",", " ", "b">>), PyStr(<<",">>)},
        ic \in {None, PyStr(<<"b">>)},
        mn \in {DefaultMinSubscribers, 5},
        mx \in {None, PyInt(5)},
        cat \in {None, PyStr(<<"C", "O", ",">>)},
        kw \in {None, PyStr(<<>>), PyStr(<<"X">>)}}

\* datasets whose order matters: counts and names vary
SortChannels ==
    {Channel(PyStr(n), PyDict([subscribersCount |-> PyInt(k)]),
             Missing, Missing, Missing, Missing) :
        n \in {<<"x">>, <<"y">>}, k \in {1, 5, 100}}
SortArgs ==
    {[DefaultArgs EXCEPT !.min_subscribers = mn, !.limit = lim, !.output_csv = OutPath] :
        mn \in {DefaultMinSubscribers, 5}, lim \in {-1, 0, 2}}

\* one record, every kind of subscribersCount value
CountValues ==
    {Missing, None, PyInt(0), PyInt(7), PyInt(-3), PyFloat(7),
     PyStr(<<"7">>), PyStr(<<" ", "1", "2", " ">>), PyStr(<<"-", "3">>),
     PyStr(<<"+", "5">>), PyStr(<<"a", "b", "c">>), PyStr(<<>>),
     PyStr(<<"7", ".", "0">>)}
CountChannels ==
    {Channel(PyStr(<<"n">>), subs, Missing, Missing, Missing, Missing) :
        subs \in {Missing} \cup {PyDict([subscribersCount |-> v]) : v \in CountValues}}
CountArgs ==
    {[DefaultArgs EXCEPT !.min_subscribers = mn, !.max_subscribers = mx,
                         !.output_csv = out] :
        mn \in {-5, DefaultMinSubscribers, 5}, mx \in {None, PyInt(7)},
        out \in {None, OutPath}}

\* unusable input files
BadFiles ==
    {<<"nofile">>, <<"notjson">>,
     <<"json", PyDict([channels |-> PyList(<<>>)])>>,
     <<"json", PyStr(<<"x">>)>>, <<"json", PyInt(5)>>, <<"json", None>>}
ErrArgs ==
    {[DefaultArgs EXCEPT !.output_csv = out, !.limit = lim] :
        out \in {None, OutPath}, lim \in {0, DefaultLimit}}

FInputs ==
    \/ fargs \in PredArgs /\ \E ch \in PredChannels : fin = <<"json", PyList(<<ch>>)>>
    \/ fargs \in SortArgs
         /\ \E d \in SeqsUpTo(SortChannels, MaxRecords) : fin = <<"json", PyList(d)>>
    \/ fargs \in CountArgs /\ \E ch \in CountChannels : fin = <<"json", PyList(<<ch>>)>>
    \/ fargs \in ErrArgs /\ fin \in BadFiles

FInit ==
    /\ FInputs
    /\ csv_file = NoFile
    /\ stdout = <<>>
    /\ fpc = "start"
    /\ data = <<>> /\ filtered = <<>> /\ total_before_limit = 0
    /\ fexit = None
    /\ all_filtered = <<>>

\* the filter is not running
FIdle ==
    /\ fin = <<"nofile">> /\ fargs = DefaultArgs
    /\ csv_file = NoFile /\ stdout = <<>> /\ fpc = "off"
    /\ data = <<>> /\ filtered = <<>> /\ total_before_limit = 0
    /\ fexit = None /\ all_filtered = <<>>

\* the updater is not running
UIdle ==
    /\ fs_local = NoFile
    /\ backups = [t \in Timestamps |-> NoFile]
    /\ clock = 0
    /\ remote = Bytes(1)
    /\ upc = "off"
    /\ local_bytes = None /\ old_hash = None
    /\ new_bytes = None /\ new_hash = None /\ backup_path = None
    /\ uexit = None /\ runs = 0 /\ fetch = "none"
    /\ start_local = NoFile /\ start_backups = backups
    /\ lwrites = 0 /\ bwrites = 0 /\ replaced = {}


-----------------------------------------------------------------------------
(* export_to_csv.py *)

format_list_blank(value) ==
    IF value[1] = "list"
      THEN PyStr(join(<<",">>, [i \in 1..Len(value[2]) |-> str(value[2][i])]))
      ELSE PyStr(<<>>)
\* format_list(value)
format_list(value) ==
    IF value[1] = "list"
      THEN PyStr(join(<<",">>, [i \in 1..Len(value[2]) |-> str(value[2][i])]))
    ELSE IF value = None THEN PyStr(<<>>)
    ELSE PyStr(str(value))

\* channel.get("statistic", {}) or {}
StatisticsOf(channel) ==
    IF channel.statistic = Missing \/ channel.statistic = None
      THEN [subscribersCount |-> Missing, viewsCount |-> Missing, videosCount |-> Missing]
      ELSE channel.statistic[2]

\* extract_row(channel)
extract_row(channel) ==
    LET statistics == StatisticsOf(channel)
    IN  [channelName |-> GetD(channel.channelName, PyStr(<<>>)),
         originalUrl |-> GetD(channel.originalUrl, PyStr(<<>>)),
         subscribersCount |-> GetD(statistics.subscribersCount, PyStr(<<>>)),
         viewsCount |-> GetD(statistics.viewsCount, PyStr(<<>>)),
         videosCount |-> GetD(statistics.videosCount, PyStr(<<>>)),
         channelCategories |-> format_list(GetD(channel.channelCategories, PyList(<<>>))),
         definedCategories |-> format_list(GetD(channel.definedCategories, PyList(<<>>))),
         clusterName |-> GetD(channel.clusterName, PyStr(<<>>)),
         inferredClusterName |-> GetD(channel.inferredClusterName, PyStr(<<>>))]

\* main(), lines 54-60: rows = [extract_row(channel) for channel in channels],
\* then write_csv(rows, csv_path)
ExportRows ==
    /\ epc = "start"
    /\ channels_all' = Csv([i \in 1..Len(ein) |-> extract_row(ein[i])])
    /\ epc' = "written"
    /\ UNCHANGED <<ein, eout>>
    /\ UNCHANGED <<uVars, fVars>>

\* main(), line 62
ExportReport ==
    /\ epc = "written"
    /\ eout' = eout \o <<<<"done", Len(channels_all[2])>>>>
    /\ epc' = "exit"
    /\ UNCHANGED <<ein, channels_all>>
    /\ UNCHANGED <<uVars, fVars>>

ENext ==
    \/ ExportRows
    \/ ExportReport

(* Inputs of the exporter *)
ExportStatistics ==
    {Missing, None}
    \cup {PyDict([subscribersCount |-> a, viewsCount |-> b, videosCount |-> c]) :
            a \in {Missing, PyInt(5)}, b \in {Missing, PyStr(<<"9">>)},
            c \in {Missing, PyInt(0)}}
ExportCategories ==
    {Missing, None, PyList(<<>>), PyList(<<PyStr(<<"b">>), PyStr(<<"a", "c">>)>>),
     PyList(<<PyStr(<<"a">>), PyInt(12)>>), PyStr(<<"x", "y">>), PyInt(7)}
ExportChannels ==
    {[channelName |-> n, originalUrl |-> u, statistic |-> st,
      channelCategories |-> cc, definedCategories |-> dc,
      clusterName |-> cl, inferredClusterName |-> ic] :
        n \in {Missing, PyStr(<<"n">>)}, u \in {Missing, PyStr(<<"u">>)},
        st \in ExportStatistics, cc \in ExportCategories,
        dc \in {Missing, PyList(<<PyStr(<<"d">>), PyStr(<<"a">>)>>), PyStr(<<"x">>)},
        cl \in {Missing, PyStr(<<"c">>)}, ic \in {Missing, PyStr(<<"i">>)}}

EInit ==
    /\ ein \in {<<>>} \cup {<<ch>> : ch \in ExportChannels}
    /\ epc = "start"
    /\ channels_all = NoFile
    /\ eout = <<>>

\* the exporter is not running
EIdle ==
    /\ ein = <<>> /\ epc = "off" /\ channels_all = NoFile /\ eout = <<>>

-----------------------------------------------------------------------------
(* Specifications: one script runs, the others are not running *)

InitUpdater == UInit /\ FIdle /\ EIdle
Spec == InitUpdater /\ [][UNext]_vars

InitFilter == UIdle /\ FInit /\ EIdle
SpecFilter == InitFilter /\ [][FNext]_vars

InitExport == UIdle /\ FIdle /\ EInit
SpecExport == InitExport /\ [][ENext]_vars

-----------------------------------------------------------------------------
(* Claims about the updater *)

\* C1: whenever a run writes LOCAL_PATH, the hash of the fetched bytes differs
\* from the hash of the bytes the file held (or the file did not exist), and if
\* the file existed this run has already written a backup file that holds
\* exactly those bytes.
C1_BackupBeforeOverwrite ==
    [][lwrites' = lwrites + 1 =>
         /\ (fs_local = NoFile
               \/ calculate_sha256(new_bytes) # calculate_sha256(fs_local))
         /\ (fs_local # NoFile =>
               /\ bwrites = 1
               /\ backup_path # None
               /\ backups[backup_path[2]] = fs_local)]_vars

\* a run has replaced an existing snapshot after backing it up
C1_Witness == upc = "done" /\ lwrites = 1 /\ bwrites = 1 /\ start_local # NoFile

\* C2: a run that fetched bytes hashing to the hash of the existing snapshot
\* ends with the snapshot and every backup file as they were at its start and
\* has made no write_bytes call at all.
C2_Idempotent ==
    (/\ upc = "done"
     /\ start_local # NoFile
     /\ calculate_sha256(new_bytes) = calculate_sha256(start_local))
    => /\ fs_local = start_local
       /\ backups = start_backups
       /\ lwrites = 0 /\ bwrites = 0
       /\ uexit = <<"int", 0>>

\* a second (or later) run found nothing new, after an earlier run did write
C2_Witness ==
    /\ upc = "done" /\ runs >= 2 /\ start_local # NoFile
    /\ calculate_sha256(new_bytes) = calculate_sha256(start_local)
    /\ replaced # {}

\* C3: a run whose fetch failed (exception in the GET, or non-success status)
\* is aborted with a non-zero status and has written nothing; and a run that
\* has written anything has a successful fetch behind it.
C3_FetchFailureWritesNothing ==
    /\ (fetch \in {"neterr", "httperr"} =>
          /\ upc \in {"aborted", "idle"}
          /\ uexit = <<"int", 1>>
          /\ fs_local = start_local
          /\ backups = start_backups
          /\ lwrites = 0 /\ bwrites = 0)
    /\ (lwrites + bwrites > 0 => fetch = "ok")

\* a non-success response arrived while the local snapshot differed from it
C3_Witness ==
    /\ upc = "aborted" /\ fetch = "httperr"
    /\ start_local # NoFile /\ start_local # remote

\* C10: the bytes of every snapshot that some run has overwritten are held by
\* some backup file.
C10_NoBackupLost ==
    \A c \in replaced : \E t \in Timestamps : backups[t] = c

-----------------------------------------------------------------------------
(* Claims about the rich filter *)

Range(l) == {l[i] : i \in DOMAIN l}
Min(a, b) == IF a < b THEN a ELSE b
FilterRan == fpc \in {"limit", "csv", "exit"} /\ fin[1] = "json" /\ fin[2][1] = "list"

\* the names an allow-list argument lists: its comma-separated items, trimmed
\* and case-folded, blank items dropped
ListedNames(raw) ==
    IF raw = None THEN {}
    ELSE {lower(strip(x)) : x \in Range(split(raw[2], ","))} \ {<<>>}

\* the predicates of the claim; Fold is what is done to a record's cluster name
\* before it is compared with the listed names
Satisfies(r, a, Fold(_)) ==
    /\ (ListedNames(a.cluster) # {} =>
          r.clusterName # Missing /\ Fold(r.clusterName[2]) \in ListedNames(a.cluster))
    /\ (ListedNames(a.inferred_cluster) # {} =>
          /\ r.inferredClusterName # Missing
          /\ Fold(r.inferredClusterName[2]) \in ListedNames(a.inferred_cluster))
    /\ parse_int(SubscribersOf(r)) >= a.min_subscribers
    /\ (a.max_subscribers # None => parse_int(SubscribersOf(r)) <= a.max_subscribers[2])
    /\ (ListedNames(a.category) # {} =>
          /\ r.definedCategories # Missing
          /\ \E cat \in Range(r.definedCategories[2]) :
                \E pat \in ListedNames(a.category) : contains(pat, lower(str(cat))))
    /\ (a.keyword # None /\ a.keyword # PyStr(<<>>) =>
          /\ r.lastVideoTitles # Missing
          /\ \E t \in Range(r.lastVideoTitles[2]) :
                contains(lower(a.keyword[2]), lower(str(t))))

\* the returned list holds, as often as the input does, exactly the input
\* records that satisfy the predicates (each with its count normalized)
ReturnsExactly(Fold(_)) ==
    LET want == {i \in DOMAIN data : Satisfies(data[i], fargs, Fold)}
    IN  \A c \in Range(all_filtered) \cup {Copy(data[i]) : i \in want} :
            Cardinality({j \in DOMAIN all_filtered : all_filtered[j] = c})
              = Cardinality({i \in want : Copy(data[i]) = c})

\* C4 as stated: the records returned are exactly those satisfying every
\* active predicate, the cluster predicates comparing the case-folded
\* cluster name with the listed names.
C4_CaseFoldedOnly == FilterRan => ReturnsExactly(lower)

\* C4 as amended: the records returned are exactly those satisfying every
\* active predicate, the cluster predicates comparing the whitespace-trimmed,
\* case-folded cluster name with the listed names; an allow-list that lists no
\* non-blank name and an empty keyword impose no constraint.
C4_TrimmedAndCaseFolded == FilterRan => ReturnsExactly(LAMBDA x : lower(strip(x)))

\* a record named "B " passed the allow-list "A, b" together with a second
\* active predicate
C4_Witness ==
    /\ fpc = "exit"
    /\ fargs.cluster = PyStr(<<"A", ",", " ", "b">>)
    /\ fargs.category # None
    /\ Len(all_filtered) = 1
    /\ all_filtered[1].clusterName = PyStr(<<"B", " ">>)

\* C5: the returned list is in descending order of normalized subscriber
\* count, and the records of any one count are in their input order.
C5_SortedStable ==
    FilterRan =>
      LET kept == SelectSeq(data, LAMBDA r : Keep(r, fargs))
          copies == [i \in 1..Len(kept) |-> Copy(kept[i])]
      IN  /\ \A i \in 1..(Len(all_filtered) - 1) :
                SortKey(all_filtered[i]) >= SortKey(all_filtered[i + 1])
          /\ \A k \in {SortKey(c) : c \in Range(copies) \cup Range(all_filtered)} :
                SelectSeq(all_filtered, LAMBDA c : SortKey(c) = k)
                  = SelectSeq(copies, LAMBDA c : SortKey(c) = k)

\* the input counts were [5, 100, 100, 1], the two 100s being different records
C5_Witness ==
    /\ fpc = "exit" /\ Len(data) = 4 /\ Len(all_filtered) = 4
    /\ [i \in 1..4 |-> parse_int(SubscribersOf(data[i]))] = <<5, 100, 100, 1>>
    /\ data[2] # data[3]
    /\ [i \in 1..4 |-> SortKey(all_filtered[i])] = <<100, 100, 5, 1>>
    /\ all_filtered[1].channelName = data[2].channelName

\* C6: after a successful run the records shown and exported are the first
\* min(limit, total) of the sorted filtered list when limit > 0 and all of
\* them otherwise; one line reports the total before truncation; a "shown" line
\* is printed exactly when fewer than the total are shown, with their number.
C6_LimitSemantics ==
    (fpc = "exit" /\ fexit = PyInt(0)) =>
      LET total == Len(all_filtered)
          n == IF fargs.limit > 0 THEN Min(fargs.limit, total) ELSE total
          shown == SubSeq(all_filtered, 1, n)
          rows == SelectSeq(stdout, LAMBDA l : l[1] = "row")
      IN  /\ filtered = shown
          /\ rows = [i \in 1..n |->
                       <<"row", GetD(shown[i].channelName, PyStr(<<>>)), SortKey(shown[i]),
                         GetD(shown[i].clusterName, PyStr(<<>>))>>]
          /\ SelectSeq(stdout, LAMBDA l : l[1] = "found") = <<<<"found", total>>>>
          /\ SelectSeq(stdout, LAMBDA l : l[1] = "shown")
               = (IF n < total THEN <<<<"shown", n>>>> ELSE <<>>)
          /\ (fargs.output_csv = OutPath =>
                /\ csv_file # NoFile
                /\ Len(csv_file[2]) = n
                /\ \A i \in 1..n :
                     /\ csv_file[2][i].channelName = GetD(shown[i].channelName, PyStr(<<>>))
                     /\ csv_file[2][i].subscribersCount = PyInt(SortKey(shown[i])))

\* four records matched, the limit was 2
C6_Witness ==
    /\ fpc = "exit" /\ fexit = PyInt(0)
    /\ Len(all_filtered) = 4 /\ fargs.limit = 2 /\ Len(filtered) = 2
    /\ stdout[Len(stdout) - 1] = <<"shown", 2>>
    /\ csv_file # NoFile

\* what each modelled subscribersCount text is worth as a decimal integer
\* (surrounding whitespace and a sign allowed), where it is one
NumericStrings ==
    {<<<<"7">>, 7>>, <<<<" ", "1", "2", " ">>, 12>>, <<<<"-", "3">>, -3>>,
     <<<<"+", "5">>, 5>>}
CountOf(v) ==
    IF v = Missing \/ v = None THEN 0
    ELSE IF v[1] = "int" THEN v[2]
    ELSE IF v[1] = "str" /\ \E p \in NumericStrings : p[1] = v[2]
           THEN (CHOOSE p \in NumericStrings : p[1] = v[2])[2]
    ELSE 0
RawCount(r) == IF r.statistic = Missing THEN Missing ELSE r.statistic[2].subscribersCount
OnlyBounds(a) ==
    /\ a.cluster = None /\ a.inferred_cluster = None
    /\ a.category = None /\ a.keyword = None
IsReturnedAs(r, n) ==
    \E j \in DOMAIN all_filtered :
        /\ all_filtered[j].channelName = r.channelName
        /\ all_filtered[j].statistic[2].subscribersCount = PyInt(n)
InBounds(n, a) ==
    n >= a.min_subscribers /\ (a.max_subscribers # None => n <= a.max_subscribers[2])

NegativeSource(v) ==
    \/ (v[1] = "int" /\ v[2] < 0)
    \/ (v[1] = "str" /\ strip(v[2]) # <<>> /\ Head(strip(v[2])) = "-")

C8_BadInputNoOutput ==
    (fin[1] # "json" \/ fin[2][1] # "list") =>
      /\ fpc \in {"start", "exit"}
      /\ csv_file = NoFile
      /\ \A i \in DOMAIN stdout : stdout[i][1] = "error"
      /\ (fpc = "exit" =>
            /\ fexit # None /\ fexit # PyInt(0)
            /\ Len(stdout) = 1)

\* a JSON object was given and a CSV file asked for
C8_Witness ==
    /\ fpc = "exit" /\ fin[1] = "json" /\ fin[2][1] = "dict"
    /\ fargs.output_csv = OutPath

-----------------------------------------------------------------------------
(* Claims about the exporter *)

ScalarColumns(r, ch) ==
    /\ (ch.channelName = Missing => r.channelName = PyStr(<<>>))
    /\ (ch.originalUrl = Missing => r.originalUrl = PyStr(<<>>))
    /\ (ch.clusterName = Missing => r.clusterName = PyStr(<<>>))
    /\ (ch.inferredClusterName = Missing => r.inferredClusterName = PyStr(<<>>))
    /\ (ch.statistic \in {Missing, None} =>
          /\ r.subscribersCount = PyStr(<<>>)
          /\ r.viewsCount = PyStr(<<>>)
          /\ r.videosCount = PyStr(<<>>))
    /\ (ch.statistic \notin {Missing, None} =>
          /\ (ch.statistic[2].subscribersCount = Missing => r.subscribersCount = PyStr(<<>>))
          /\ (ch.statistic[2].viewsCount = Missing => r.viewsCount = PyStr(<<>>))
          /\ (ch.statistic[2].videosCount = Missing => r.videosCount = PyStr(<<>>)))

\* a list column holds the elements' texts in order, separated by commas
JoinedInOrder(cell, field) ==
    IF field[2] = <<>> THEN cell = PyStr(<<>>)
    ELSE /\ cell[1] = "str"
         /\ split(cell[2], ",") = [i \in 1..Len(field[2]) |-> str(field[2][i])]

\* C9 as stated: a missing scalar field gives the empty string; a category
\* field that is absent or is not a list gives the empty string, and a list
\* gives its elements joined in order.
C9_NonListIsEmpty ==
    epc # "start" =>
      \A i \in DOMAIN ein :
         /\ ScalarColumns(channels_all[2][i], ein[i])
         /\ \A f \in {<<channels_all[2][i].channelCategories, ein[i].channelCategories>>,
                      <<channels_all[2][i].definedCategories, ein[i].definedCategories>>} :
               IF f[2] # Missing /\ f[2][1] = "list"
                 THEN JoinedInOrder(f[1], f[2])
                 ELSE f[1] = PyStr(<<>>)

\* C9 as amended: a missing scalar field gives the empty string; a category
\* field that is absent or null gives the empty string, a list gives its
\* elements joined in order, and any other value gives its own text.
C9_NonListIsItsText ==
    epc # "start" =>
      \A i \in DOMAIN ein :
         /\ ScalarColumns(channels_all[2][i], ein[i])
         /\ \A f \in {<<channels_all[2][i].channelCategories, ein[i].channelCategories>>,
                      <<channels_all[2][i].definedCategories, ein[i].definedCategories>>} :
               IF f[2] = Missing \/ f[2] = None THEN f[1] = PyStr(<<>>)
               ELSE IF f[2][1] = "list" THEN JoinedInOrder(f[1], f[2])
               ELSE f[1] = PyStr(str(f[2]))

\* a record without statistic, with a list in one category field and a plain
\* string in the other, was exported
C9_Witness ==
    /\ epc = "exit" /\ Len(ein) = 1
    /\ ein[1].statistic = Missing /\ ein[1].channelName = Missing
    /\ ein[1].channelCategories = PyList(<<PyStr(<<"b">>), PyStr(<<"a", "c">>)>>)
    /\ ein[1].definedCategories = PyStr(<<"x">>)
    /\ channels_all[2][1].channelCategories = PyStr(<<"b", ",", "a", "c">>)
    /\ channels_all[2][1].definedCategories = PyStr(<<"x">>)

====
